---- MODULE Spec2Model ----
(***************************************************************************)
(* A model of remind.py: the Remind class that converts between Remind    *)
(* files and iCalendar objects.                                            *)
(*                                                                         *)
(* Text (str) is a sequence of one-character strings.  A date is its day   *)
(* number counted from 2023-01-01 (day 0; 2024-01-01, a Monday, is day     *)
(* 365); a datetime adds the minute of the day and the UTC offset of its   *)
(* tzinfo.  A timedelta is a number of minutes.  An optional attribute of  *)
(* a vobject component is a sequence of length 0 (absent) or 1 (present).  *)
(***************************************************************************)
EXTENDS Integers, Sequences, FiniteSets, TLC

VARIABLES
    \* ---- one event through the translators ----
    cpc,        \* position: "event", "vevent", "remind", "parsed"
    localtz,    \* Remind._localtz, as a UTC offset in minutes
    event,      \* the dict _parse_remind collected for one uid
    vevent,     \* the vevent built by _gen_vevent (to_remind changes its dtend)
    remind,     \* to_remind: label, priority, the clauses, the returned line
    parsed      \* the dict _parse_remind_line reads back from that line

convVars == <<cpc, localtz, event, vevent, remind, parsed>>

VARIABLES
    \* ---- one Remind object, its files and its callers ----
    files,      \* the Remind files on disk: path -> readlines() of the file
    mtime,      \* getmtime() of each file
    now,        \* the clock that stamps a written file
    self_icals, \* Remind._icals: path -> calendar (the uids of its events)
    self_mtime, \* Remind._mtime
    self_lock,  \* Remind._lock: 0 when free, else the thread that holds it
    th,         \* each calling thread: its position in the method and its locals
    seen        \* per file, the mtime _update read last (0: never read)

collVars == <<files, mtime, now, self_icals, self_mtime, self_lock, th, seen>>
vars == <<convVars, collVars>>

\* ------------------------------------------------------------------ bounds
\* longest list of occurrences of one event
MaxOccurrences == 4
\* longest summary and description, and longest location, in pieces of text
MaxTextPieces == 2
MaxLocationPieces == 1
\* threads calling into one Remind object
NumThreads == 2
\* files grow to at most this many lines
MaxLines == 3
\* last tick of the clock
MaxTime == 2

\* ------------------------------------------------------------------ text
None == <<>>
Some(v) == <<v>>

RECURSIVE Replace(_, _, _)
\* str.replace(old, new): left to right, non-overlapping
Replace(s, old, new) ==
    IF Len(s) < Len(old) THEN s
    ELSE IF SubSeq(s, 1, Len(old)) = old
         THEN new \o Replace(SubSeq(s, Len(old) + 1, Len(s)), old, new)
         ELSE <<s[1]>> \o Replace(Tail(s), old, new)

RECURSIVE Join(_, _)
\* sep.join(parts)
Join(parts, sep) ==
    IF Len(parts) = 0 THEN <<>>
    ELSE IF Len(parts) = 1 THEN parts[1]
    ELSE parts[1] \o sep \o Join(Tail(parts), sep)

IsSpace(c) == c \in {" ", "\n", "\t", "\r"}
RECURSIVE Lstrip(_)
Lstrip(s) == IF Len(s) > 0 /\ IsSpace(s[1]) THEN Lstrip(Tail(s)) ELSE s
RECURSIVE Rstrip(_)
\* str.rstrip()
Rstrip(s) == IF Len(s) > 0 /\ IsSpace(s[Len(s)]) THEN Rstrip(SubSeq(s, 1, Len(s) - 1)) ELSE s
\* str.strip()
Strip(s) == Lstrip(Rstrip(s))

\* the index of the first occurrence of pat in s at or after i, or 0
RECURSIVE FindFrom(_, _, _)
FindFrom(s, pat, i) ==
    IF i + Len(pat) - 1 > Len(s) THEN 0
    ELSE IF SubSeq(s, i, i + Len(pat) - 1) = pat THEN i
    ELSE FindFrom(s, pat, i + 1)
\* pat in s
Contains(s, pat) == FindFrom(s, pat, 1) # 0
\* the index of the last occurrence of pat in s, or 0
RECURSIVE RFindFrom(_, _, _)
RFindFrom(s, pat, i) ==
    IF i < 1 THEN 0
    ELSE IF SubSeq(s, i, i + Len(pat) - 1) = pat THEN i
    ELSE RFindFrom(s, pat, i - 1)
RFind(s, pat) == RFindFrom(s, pat, Len(s) - Len(pat) + 1)

Digit == <<"0", "1", "2", "3", "4", "5", "6", "7", "8", "9">>
\* '%02d' % n
Digits2(n) == <<Digit[((n \div 10) % 10) + 1], Digit[(n % 10) + 1]>>
\* '%04d' % n
Digits4(n) == Digits2(n \div 100) \o Digits2(n % 100)
RECURSIVE Decimal(_)
\* '%d' % n
Decimal(n) == IF n < 10 THEN <<Digit[n + 1]>> ELSE Decimal(n \div 10) \o <<Digit[(n % 10) + 1]>>

\* ------------------------------------------------------------------ dates
IsLeap(y) == (y % 4 = 0 /\ y % 100 # 0) \/ y % 400 = 0
DaysInYear(y) == IF IsLeap(y) THEN 366 ELSE 365
DaysInMonth(y, m) ==
    IF m = 2 THEN (IF IsLeap(y) THEN 29 ELSE 28)
    ELSE IF m \in {4, 6, 9, 11} THEN 30 ELSE 31

RECURSIVE YMDFrom(_, _, _)
YMDFrom(y, m, n) ==
    IF n >= DaysInYear(y) /\ m = 1 THEN YMDFrom(y + 1, 1, n - DaysInYear(y))
    ELSE IF n >= DaysInMonth(y, m) THEN YMDFrom(y, m + 1, n - DaysInMonth(y, m))
    ELSE [year |-> y, month |-> m, day |-> n + 1]
\* the calendar date of day number n
YMD(n) == YMDFrom(2023, 1, n)

MonthAbbr ==
    << <<"J","a","n">>, <<"F","e","b">>, <<"M","a","r">>, <<"A","p","r">>,
       <<"M","a","y">>, <<"J","u","n">>, <<"J","u","l">>, <<"A","u","g">>,
       <<"S","e","p">>, <<"O","c","t">>, <<"N","o","v">>, <<"D","e","c">> >>

\* d.strftime('%b %d %Y')
StrfBdY(n) ==
    LET d == YMD(n)
    IN  MonthAbbr[d.month] \o <<" ">> \o Digits2(d.day) \o <<" ">> \o Digits4(d.year)
\* d.strftime('%Y-%m-%d')
StrfYmd(n) ==
    LET d == YMD(n)
    IN  Digits4(d.year) \o <<"-">> \o Digits2(d.month) \o <<"-">> \o Digits2(d.day)

\* datetime.date and datetime.datetime values
Date(n) == [kind |-> "date", ord |-> n, min |-> 0, off |-> 0]
DateTime(n, m, off) == [kind |-> "datetime", ord |-> n, min |-> m, off |-> off]
IsDateTime(v) == v.kind = "datetime"
\* minutes on the wall clock since the epoch
Wall(v) == v.ord * 1440 + v.min
\* a - b of two dates, or of two datetimes of one tzinfo: a timedelta
Minus(a, b) == Wall(a) - Wall(b)
\* timedelta.days
Days(td) == td \div 1440
\* v + timedelta(minutes=td)
Plus(v, td) ==
    LET w == Wall(v) + td
    IN  [v EXCEPT !.ord = w \div 1440, !.min = w % 1440]
\* v.astimezone(tz), tz a fixed offset in minutes
AsTimezone(v, off) == [Plus(v, off - v.off) EXCEPT !.off = off]
\* date.weekday(): Monday is 0
Weekday(n) == (n + 6) % 7
\* the instant of a value on the UTC time line (naive values count as UTC)
Instant(v) == Wall(v) - v.off

\* ------------------------------------------------------------ literals
S_REM == <<"R","E","M">>
S_MSG == <<"M","S","G">>
S_UNTIL == <<"U","N","T","I","L"," ">>
S_AT == <<"A","T"," ">>
S_DURATION == <<"D","U","R","A","T","I","O","N"," ">>
S_PRIORITY == <<"P","R","I","O","R","I","T","Y"," ">>
S_SKIP_OMIT == <<"S","K","I","P"," ","O","M","I","T"," ">>
S_SATISFY == <<"S","A","T","I","S","F","Y"," ","[">>
S_TRIGDATE == <<"t","r","i","g","d","a","t","e","(",")","=","=","'">>
S_STAR1 == <<"*","1">>
S_STAR7 == <<"*","7">>
WeekdayAbbr ==
    << <<"M","o","n">>, <<"T","u","e">>, <<"W","e","d">>, <<"T","h","u">>,
       <<"F","r","i">>, <<"S","a","t">>, <<"S","u","n">> >>

\* strftime('UNTIL %b %d %Y').replace(' 0', ' ')
UntilClause(n) == Replace(S_UNTIL \o StrfBdY(n), <<" ","0">>, <<" ">>)

\* ------------------------------------------------- recurrence inference
RECURSIVE _weekly_from(_, _)
_weekly_from(last, rest) ==
    IF Len(rest) = 0 THEN TRUE
    ELSE IF Days(Minus(rest[1], last)) # 7 THEN FALSE
    ELSE _weekly_from(rest[1], Tail(rest))
\* a _weekly that compares the first date with the last one only
_weekly_ends(dates) == Days(Minus(dates[Len(dates)], dates[1])) = 7
\* Remind._weekly
_weekly(dates) == _weekly_from(dates[1], Tail(dates))

\* max(dtstarts), min(dtstarts)
MaxOf(ds) == CHOOSE d \in {ds[i] : i \in 1..Len(ds)} : \A j \in 1..Len(ds) : Wall(ds[j]) <= Wall(d)
MinOf(ds) == CHOOSE d \in {ds[i] : i \in 1..Len(ds)} : \A j \in 1..Len(ds) : Wall(ds[j]) >= Wall(d)

\* A dateutil rrule as vobject keeps it in the RRULE property: the frequency,
\* COUNT, UNTIL and BYDAY (rrule.rrule(freq=..., count=...) has neither UNTIL
\* nor a BYDAY of its own).
Rule(freq, count) == [freq |-> freq, count |-> Some(count), until |-> None, byday |-> <<>>]

\* vobject's rruleset setter: replaces the RRULE and RDATE properties of the
\* component; an rdate equal to DTSTART is dropped, and the rdates of an
\* all-day component are kept as dates.
SetRruleset(ve, rrules, rdates) ==
    LET isDate == ~IsDateTime(ve.dtstart)
        start  == IF isDate THEN DateTime(ve.dtstart.ord, 0, 0) ELSE ve.dtstart
        kept   == SelectSeq(rdates, LAMBDA d : Instant(d) # Instant(start))
        vals   == [i \in 1..Len(kept) |-> IF isDate THEN Date(kept[i].ord) ELSE kept[i]]
    IN  [ve EXCEPT !.rrule = IF Len(rrules) > 0 THEN Some(rrules[1]) ELSE None,
                   !.rdate = IF Len(vals) > 0 THEN Some(vals) ELSE None]

\* Remind._gen_dtend_rrule
_gen_dtend_rrule(ds, ve) ==
    IF Days(Minus(MaxOf(ds), MinOf(ds))) = Len(ds) - 1
    THEN IF IsDateTime(ds[1])
         THEN SetRruleset(ve, <<Rule("DAILY", Len(ds))>>, <<>>)
         ELSE [ve EXCEPT !.dtend = Some(Plus(ds[Len(ds)], 1440))]
    ELSE IF _weekly(ds)
    THEN SetRruleset(ve, <<Rule("WEEKLY", Len(ds))>>, <<>>)
    ELSE LET rdates == [i \in 1..Len(ds) |->
                           IF IsDateTime(ds[1]) THEN AsTimezone(ds[i], 0)
                           ELSE DateTime(ds[i].ord, 0, 0)]
             moved  == [ve EXCEPT !.dtstart = Plus(ds[1], -1440)]
             withrs == SetRruleset(moved, <<>>, rdates)
             back   == [withrs EXCEPT !.dtstart = ds[1]]
         IN  IF ~IsDateTime(ds[1])
             THEN [back EXCEPT !.dtend = Some(Plus(ds[1], 1440))]
             ELSE back

\* Remind._gen_vevent; ev is the dict built by _parse_remind_line
_gen_vevent(ev) ==
    LET first == ev.dtstart[1]
        base  == [dtstart |-> first, dtend |-> None, duration |-> None,
                  summary |-> ev.msg, uid |-> ev.uid,
                  location |-> ev.location, description |-> ev.description,
                  valarm |-> None, rrule |-> None, rdate |-> None]
        timed == IF IsDateTime(first)
                 THEN [base EXCEPT !.valarm = Some(ev.msg),
                                   !.duration = ev.duration,
                                   !.dtend = IF ev.duration = None THEN Some(first) ELSE None]
                 ELSE IF Len(ev.dtstart) = 1
                      THEN [base EXCEPT !.dtend = Some(Plus(first, 1440))]
                      ELSE base
    IN  IF Len(ev.dtstart) > 1 THEN _gen_dtend_rrule(ev.dtstart, timed) ELSE timed
\* ----------------------------------------------- recurrence compression
\* Remind._parse_rdate
_parse_rdate(rdates) ==
    LET trigdates == [i \in 1..Len(rdates) |-> S_TRIGDATE \o StrfYmd(rdates[i].ord) \o <<"'">>]
    IN  S_SATISFY \o Join(trigdates, <<"|","|">>) \o <<"]">>

\* vobject's rruleset getter: dateutil's rule for the RRULE property, started at
\* DTSTART.  A WEEKLY rule without BYDAY recurs on the weekday of DTSTART.
GetRruleset(ve) ==
    LET r == ve.rrule[1]
    IN  [freq |-> r.freq, count |-> r.count, until |-> r.until,
         byweekday |-> IF Len(r.byday) > 0 THEN r.byday
                       ELSE IF r.freq = "WEEKLY" THEN <<Weekday(ve.dtstart.ord)>>
                       ELSE <<>>,
         dtstart |-> ve.dtstart]

RECURSIVE NthDay(_, _, _)
\* the day of the k-th occurrence on or after day d of a DAILY, WEEKLY or
\* MONTHLY rule
NthDay(rs, d, k) ==
    LET hit == \/ rs.freq = "DAILY"
               \/ \E i \in 1..Len(rs.byweekday) : rs.byweekday[i] = Weekday(d)
               \/ rs.freq = "MONTHLY" /\ YMD(d).day = YMD(rs.dtstart.ord).day
    IN  IF hit /\ k = 1 THEN d
        ELSE NthDay(rs, d + 1, IF hit THEN k - 1 ELSE k)
\* rruleset[-1] of a rule with a count
LastOccurrence(rs) == NthDay(rs, rs.dtstart.ord, rs.count[1])

RECURSIVE Occurrences(_, _, _)
\* list(rrule) of a rule with a count
Occurrences(rs, d, k) ==
    IF k = 0 THEN <<>>
    ELSE LET n == NthDay(rs, d, 1) IN <<Date(n)>> \o Occurrences(rs, n + 1, k - 1)

\* Remind._parse_rruleset: a list of clauses, or the SATISFY text
_parse_rruleset(rs) ==
    LET many  == Len(rs.byweekday) > 1
        omit  == SelectSeq(<<0, 1, 2, 3, 4, 5, 6>>,
                           LAMBDA day : \A i \in 1..Len(rs.byweekday) : rs.byweekday[i] # day)
        days  == [i \in 1..Len(omit) |-> WeekdayAbbr[omit[i] + 1]]
        star  == IF many \/ rs.freq = "DAILY" THEN <<S_STAR1>> ELSE <<S_STAR7>>
        skip  == IF many THEN <<S_SKIP_OMIT \o Join(days, <<" ">>)>> ELSE <<>>
        until == IF rs.until # None THEN <<UntilClause(rs.until[1].ord)>>
                 ELSE IF rs.count # None /\ rs.count[1] > 0
                      THEN <<UntilClause(LastOccurrence(rs))>>
                      ELSE <<>>
    IN  IF rs.freq = "YEARLY" THEN [type |-> "list", list |-> <<>>, str |-> <<>>]
        ELSE IF many \/ rs.freq \in {"DAILY", "WEEKLY"}
             THEN [type |-> "list", list |-> star \o skip \o until, str |-> <<>>]
             ELSE [type |-> "str", list |-> <<>>,
                   str |-> _parse_rdate(Occurrences(rs, rs.dtstart.ord, rs.count[1]))]

\* an _event_duration that reads the DURATION property only
_event_duration_only(ve) ==
    IF ve.duration # None /\ ve.duration[1] # 0 THEN ve.duration[1] ELSE 0
\* Remind._event_duration
_event_duration(ve) ==
    IF ve.dtend # None THEN Minus(ve.dtend[1], ve.dtstart)
    ELSE IF ve.duration # None /\ ve.duration[1] # 0 THEN ve.duration[1]
    ELSE 0

\* Remind._gen_msg
_gen_msg(ve, label) ==
    LET msg == (IF label # None /\ Len(label[1]) > 0 THEN <<label[1]>> ELSE <<>>)
               \o <<Replace(ve.summary, <<"[">>, <<"[","\"","[","\"","]">>)>>
               \o (IF ve.location # None /\ Len(ve.location[1]) > 0
                   THEN <<<<"a","t"," ">> \o ve.location[1]>> ELSE <<>>)
    IN  IF ve.description # None /\ Len(ve.description[1]) > 0
        THEN <<S_MSG,
               <<"%","\"">> \o Join(msg, <<" ">>) \o <<"%","\"">>,
               Replace(Replace(ve.description[1], <<"\n">>, <<"%","_">>),
                       <<"[">>, <<"[","\"","[","\"","]">>)>>
        ELSE <<S_MSG, Join(msg, <<" ">>)>>

\* Remind.to_remind: what _parse_rruleset returned (trigdates), the clauses,
\* the returned line and the vevent, whose dtend the method moves back by one
\* day when it emits '*1'
to_remind(ve, label, priority, tz) ==
    LET trigdates == IF ve.rrule # None THEN _parse_rruleset(GetRruleset(ve))
                     ELSE [type |-> "none", list |-> <<>>, str |-> <<>>]
        duration == _event_duration(ve)
        span  == ~IsDateTime(ve.dtstart) /\ Days(duration) > 1
        ve2   == IF span /\ ve.dtend # None
                 THEN [ve EXCEPT !.dtend = Some(Plus(ve.dtend[1], -1440))] ELSE ve
        local == AsTimezone(ve.dtstart, tz)
        start == IF ve.rdate = None /\ trigdates.type # "str"
                 THEN <<Replace(StrfBdY(ve.dtstart.ord), <<" ","0">>, <<" ">>)>> ELSE <<>>
        prio  == IF priority # None /\ priority[1] # 0
                 THEN <<S_PRIORITY \o Decimal(priority[1])>> ELSE <<>>
        trig  == IF trigdates.type = "list" THEN trigdates.list ELSE <<>>
        daily == IF ~span THEN <<>>
                 ELSE IF ve.dtend # None THEN <<S_STAR1, UntilClause(ve2.dtend[1].ord)>>
                 ELSE <<S_STAR1>>
        at    == IF ~IsDateTime(ve.dtstart) THEN <<>>
                 ELSE <<Replace(S_AT \o Digits2(local.min \div 60) \o <<":">>
                                     \o Digits2(local.min % 60), <<" ","0">>, <<" ">>)>>
                      \o (IF duration > 0
                          THEN <<S_DURATION \o Decimal(duration \div 60) \o <<":">>
                                            \o Digits2(duration % 60)>>
                          ELSE <<>>)
        sat   == IF ve.rdate # None THEN <<_parse_rdate(ve.rdate[1])>>
                 ELSE IF trigdates.type = "str" THEN <<trigdates.str>> ELSE <<>>
        all   == <<S_REM>> \o start \o prio \o trig \o daily \o at \o sat \o _gen_msg(ve, label)
    IN  [trigdates |-> trigdates, clauses |-> all,
         line |-> Join(all, <<" ">>) \o <<"\n">>, vevent |-> ve2]

\* ------------------------------------------------------ forward parsing
\* Remind._gen_description, applied to a line of the Remind file
_gen_description(text) ==
    LET rfind == RFind(text, <<"%","\"">>) - 1   \* 0-based; -1 when absent
        rest  == SubSeq(text, rfind + 4, Len(text))
    IN  Strip(Replace(Replace(rest, <<"%","_">>, <<"\n">>),
                      <<"[","\"","[","\"","]">>, <<"[">>))

RECURSIVE Flat(_)
Flat(text) == IF Len(text) = 0 THEN "" ELSE text[1] \o Flat(Tail(text))
\* sha1(text.encode('utf-8')).hexdigest(): one token per text, different for
\* different texts
Sha1(text) == "sha1:" \o Flat(text)

\* Remind._gen_uid; line_number is the text of the number
_gen_uid(line_number, text) == line_number \o <<"-", Sha1(text), "@", "host">>

RECURSIVE DaysBefore(_, _, _)
\* days from 2023-01-01 to the first day of month m of year y
DaysBefore(y, m, acc) ==
    IF y > 2023 THEN DaysBefore(y - 1, m, acc + DaysInYear(y - 1))
    ELSE IF m > 1 THEN DaysBefore(y, m - 1, acc + DaysInMonth(2023, m - 1)) ELSE acc
\* date(y, m, d)
Ordinal(y, m, d) ==
    DaysBefore(y, 1, 0) + d - 1
    + (LET RECURSIVE Months(_)
           Months(k) == IF k = 0 THEN 0 ELSE DaysInMonth(y, k) + Months(k - 1)
       IN  Months(m - 1))

\* Remind._parse_remind_line; line holds the fields of one record of remind's
\* output (number, date, duration, time, message), text is the line of the file
_parse_remind_line(line, text, tz) ==
    LET n   == Ordinal(line.date.year, line.date.month, line.date.day)
        at  == RFind(line.msg, <<" ","a","t"," ">>)
    IN  [dtstart |-> IF line.time # None
                     THEN <<DateTime(n, line.time[1], tz)>> ELSE <<Date(n)>>,
         duration |-> IF line.time # None /\ line.dur # None THEN line.dur ELSE None,
         msg |-> IF at # 0 THEN SubSeq(line.msg, 1, at - 1) ELSE line.msg,
         location |-> IF at # 0 THEN Some(SubSeq(line.msg, at + 4, Len(line.msg))) ELSE None,
         description |-> IF Contains(text, <<"%","\"">>) THEN Some(_gen_description(text)) ELSE None,
         uid |-> _gen_uid(line.num, text)]

\* ------------------------------------------------- the remind program
\* What `remind -s` prints as the message of a command: the body after MSG,
\* cut to the part between %" and %" when the body has one, with the
\* expression ["["] evaluated to [ and %_ to a line break.
RemindMsg(command) ==
    LET m    == FindFrom(command, <<" ","M","S","G"," ">>, 1)
        body == SubSeq(command, m + 5, Len(command))
        q1   == FindFrom(body, <<"%","\"">>, 1)
        q2   == FindFrom(body, <<"%","\"">>, q1 + 2)
        cut  == IF q1 = 0 THEN body
                ELSE SubSeq(body, q1 + 2, IF q2 = 0 THEN Len(body) ELSE q2 - 1)
    IN  Replace(Replace(cut, <<"[","\"","[","\"","]">>, <<"[">>), <<"%","_">>, <<"\n">>)

\* file.readlines()[0] of a text: up to and including the first line break
FirstLine(text) ==
    LET nl == FindFrom(text, <<"\n">>, 1)
    IN  IF nl = 0 THEN text ELSE SubSeq(text, 1, nl)

\* The fields of the record remind prints for the first occurrence of the
\* command on line number num, as _parse_remind splits them: the message is
\* ' '.join() of the words of the record with its line breaks made spaces
\* and its end stripped.
RemindRecord(num, text, start, dur) ==
    [num  |-> num,
     date |-> YMD(start.ord),
     dur  |-> dur,
     time |-> IF IsDateTime(start) THEN Some(start.min) ELSE None,
     msg  |-> Rstrip(Replace(RemindMsg(Rstrip(text)), <<"\n">>, <<" ">>))]

\* ------------------------------------------------------------ one event
GenVevent ==
    /\ cpc = "event"
    /\ vevent' = _gen_vevent(event)
    /\ cpc' = "vevent"
    /\ UNCHANGED <<localtz, event, remind, parsed>>
    /\ UNCHANGED collVars

ToRemind ==
    /\ cpc = "vevent"
    /\ \E label \in {None, Some(<<"L">>)}, priority \in {None, Some(5)} :
          LET r == to_remind(vevent, label, priority, localtz)
          IN  /\ remind' = [label |-> label, priority |-> priority,
                             trigdates |-> r.trigdates,
                             clauses |-> r.clauses, line |-> r.line]
              /\ vevent' = r.vevent
    /\ cpc' = "remind"
    /\ UNCHANGED <<localtz, event, parsed>>
    /\ UNCHANGED collVars

\* the line written to a file, expanded by remind and parsed again
ParseRemindLine ==
    /\ cpc = "remind"
    /\ LET text  == FirstLine(remind.line)
           start == AsTimezone(vevent.dtstart, localtz)
       IN  parsed' = _parse_remind_line(
                         RemindRecord(<<"1">>, text, IF IsDateTime(vevent.dtstart)
                                                     THEN start ELSE vevent.dtstart,
                                      IF _event_duration(vevent) > 0 /\ IsDateTime(vevent.dtstart)
                                      THEN Some(_event_duration(vevent)) ELSE None),
                         text, localtz)
    /\ cpc' = "parsed"
    /\ UNCHANGED <<localtz, event, vevent, remind>>
    /\ UNCHANGED collVars

ConvNext == GenVevent \/ ToRemind \/ ParseRemindLine

\* ----------------------------------------------------- the collection
Files == {"a.rem", "b.rem"}
Threads == 1..NumThreads

RECURSIVE Concat(_)
\* ''.join(lines): the bytes of a file
Concat(lines) == IF Len(lines) = 0 THEN <<>> ELSE lines[1] \o Concat(Tail(lines))

RECURSIVE SplitLines(_)
\* file.readlines(): each line with its line break
SplitLines(text) ==
    IF Len(text) = 0 THEN <<>>
    ELSE LET l == FirstLine(text)
         IN  <<l>> \o SplitLines(SubSeq(text, Len(l) + 1, Len(text)))

RECURSIVE Split(_, _)
\* str.split(sep)
Split(s, sep) ==
    LET i == FindFrom(s, <<sep>>, 1)
    IN  IF i = 0 THEN <<s>>
        ELSE <<SubSeq(s, 1, i - 1)>> \o Split(SubSeq(s, i + 1, Len(s)), sep)

DigitValue(c) == CHOOSE v \in 0..9 : Digit[v + 1] = c
IsDigit(c) == \E v \in 0..9 : Digit[v + 1] = c
\* whether int(part) returns (it raises ValueError otherwise)
IsInt(part) == Len(part) > 0 /\ \A i \in 1..Len(part) : IsDigit(part[i])
RECURSIVE IntOf(_)
\* int(part)
IntOf(part) ==
    IF Len(part) = 0 THEN 0
    ELSE 10 * IntOf(SubSeq(part, 1, Len(part) - 1)) + DigitValue(part[Len(part)])

\* name.split('@')[0].split('-')
SplitUid(name) == Split(Split(name, "@")[1], "-")

\* whether rem[line] exists, and its 1-based place: a negative index counts
\* from the end of the list
InRange(line, n) == -n <= line /\ line < n
Place(line, n) == IF line >= 0 THEN line + 1 ELSE n + line + 1

\* The calendars remind and _parse_remind build from the files as they are:
\* one per file that has a command, with one event per command; an event is
\* kept as its uid.  (self._filename includes every file of Files.)
_parse_remind ==
    [f \in {g \in Files : Len(files[g]) > 0} |->
        [i \in 1..Len(files[f]) |-> _gen_uid(Decimal(i), files[f][i])]]

\* An iCalendar text handed to append or replace: whether readOne() parses
\* it, and the VEVENTs it holds.
Ical(parses, vevents) == [parses |-> parses, vevents |-> vevents]
\* the exception readOne(ical).vevent_list raises, or "" when it returns
IcalError(ical) ==
    IF ~ical.parses THEN "ParseError"
    ELSE IF Len(ical.vevents) = 0 THEN "AttributeError" ELSE ""
\* Remind.to_reminds, with label and priority left at None
to_reminds(ical) ==
    Concat([i \in 1..Len(ical.vevents) |-> to_remind(ical.vevents[i], None, None, 0).line])

NoIcal == Ical(FALSE, <<>>)
Idle ==
    [pc |-> "idle", op |-> "", filename |-> "", line |-> 0, uidhash |-> <<>>,
     ical |-> NoIcal, name |-> <<>>, exc |-> "", result |-> <<>>,
     stale |-> FALSE, rebuilt |-> FALSE, alone |-> FALSE, wrote |-> FALSE]

\* an acquire that does not wait for the holder
acquire_nowait(t) == self_lock' = t
\* self._lock.acquire(): blocks while the lock is held
acquire(t) == self_lock = 0 /\ self_lock' = t
\* self._lock.release()
release(t) == self_lock' = 0

\* whether the cache is due for a rebuild as the files stand: it is empty, or
\* a cached file's mtime is past the one last read for that file
Due == DOMAIN self_icals = {} \/ \E f \in DOMAIN self_icals : mtime[f] > seen[f]
OthersIdle(t) == \A u \in Threads \ {t} : th[u].pc = "idle"
\* another thread starting a call ends a call's being alone
Joined(t, rec) == [u \in Threads |-> IF u = t THEN rec
                                       ELSE [th[u] EXCEPT !.alone = FALSE]]

\* the largest of self._mtime and the mtimes of the cached files: what the
\* loop of _update leaves in self._mtime
NewestOf(fs) ==
    LET ms == {self_mtime} \cup {mtime[f] : f \in fs}
    IN  CHOOSE m \in ms : \A k \in ms : k <= m

\* the value a view returns from the cache
ViewResult(op, filename, icals) ==
    IF op = "get_filesnames" THEN <<DOMAIN icals>>
    ELSE IF op = "to_vobject"
         THEN (IF filename \in DOMAIN icals THEN icals[filename] ELSE <<>>)
         ELSE (IF "a.rem" \in DOMAIN icals THEN icals["a.rem"] ELSE <<>>)
              \o (IF "b.rem" \in DOMAIN icals THEN icals["b.rem"] ELSE <<>>)

\* get_filesnames, to_vobject, to_vobject_combined up to _update's decision:
\* the loop over the cached files reads each mtime and raises self._mtime.
CallView(t, ops, filenames) ==
    /\ th[t].pc = "idle"
    /\ \E op \in ops, filename \in filenames :
          LET update == DOMAIN self_icals = {} \/ NewestOf(DOMAIN self_icals) > self_mtime
              rec == [Idle EXCEPT !.op = op, !.filename = filename,
                                  !.stale = Due, !.alone = OthersIdle(t),
                                  !.pc = IF update THEN "acquire" ELSE "return",
                                  !.result = IF update THEN <<>>
                                             ELSE ViewResult(op, filename, self_icals)]
          IN  th' = Joined(t, rec)
    /\ self_mtime' = NewestOf(DOMAIN self_icals)
    /\ seen' = [f \in Files |-> IF f \in DOMAIN self_icals THEN mtime[f] ELSE seen[f]]
    /\ UNCHANGED <<files, mtime, now, self_icals, self_lock>>
    /\ UNCHANGED convVars

\* Remind.append up to the lock
CallAppend(t, icals, filenames) ==
    /\ th[t].pc = "idle"
    /\ \E ical \in icals, filename \in filenames :
          /\ filename \in Files => Len(files[filename]) + Len(ical.vevents) <= MaxLines
          /\ th' = Joined(t, [Idle EXCEPT !.op = "append", !.filename = filename,
                                          !.ical = ical, !.alone = OthersIdle(t),
                                          !.pc = IF filename \in DOMAIN self_icals
                                                 THEN "acquire" ELSE "return"])
    /\ UNCHANGED <<files, mtime, now, self_icals, self_mtime, self_lock, seen>>
    /\ UNCHANGED convVars

\* Remind.remove and Remind.replace up to the lock: the file must be cached,
\* the name must split in two, and int() of the first part may raise.
CallMutate(t, op, names, icals, filenames) ==
    /\ th[t].pc = "idle"
    /\ \E name \in names, ical \in icals, filename \in filenames :
          LET uid == SplitUid(name)
              rec == [Idle EXCEPT !.op = op, !.filename = filename, !.ical = ical,
                                  !.name = name, !.alone = OthersIdle(t)]
          IN  /\ filename \in Files => Len(files[filename]) + Len(ical.vevents) <= MaxLines + 1
              /\ th' = Joined(t,
                    IF filename \notin DOMAIN self_icals \/ Len(uid) # 2
                    THEN [rec EXCEPT !.pc = "return"]
                    ELSE IF ~IsInt(uid[1])
                    THEN [rec EXCEPT !.pc = "return", !.exc = "ValueError"]
                    ELSE [rec EXCEPT !.pc = "acquire", !.line = IntOf(uid[1]) - 1,
                                     !.uidhash = uid[2]])
    /\ UNCHANGED <<files, mtime, now, self_icals, self_mtime, self_lock, seen>>
    /\ UNCHANGED convVars

CallRemove(t, names, filenames) == CallMutate(t, "remove", names, {NoIcal}, filenames)
CallReplace(t, names, icals, filenames) == CallMutate(t, "replace", names, icals, filenames)

IsView(op) == op \in {"get_filesnames", "to_vobject", "to_vobject_combined"}

Acquire(t) ==
    /\ th[t].pc = "acquire"
    /\ acquire(t)
    /\ th' = [th EXCEPT ![t].pc = IF IsView(th[t].op) THEN "rebuild" ELSE "rmw"]
    /\ UNCHANGED <<files, mtime, now, self_icals, self_mtime, seen>>
    /\ UNCHANGED convVars

\* _update under the lock: self._icals = self._parse_remind(self._filename)
Rebuild(t) ==
    /\ th[t].pc = "rebuild"
    /\ self_icals' = _parse_remind
    /\ th' = [th EXCEPT ![t].pc = "release", ![t].rebuilt = TRUE]
    /\ UNCHANGED <<files, mtime, now, self_mtime, self_lock, seen>>
    /\ UNCHANGED convVars

\* a comparison that accepts every hash
HashMatches_any(text, uidhash) == TRUE
\* linehash == uid[1], linehash the sha1 of rem[line]
HashMatches(text, uidhash) == <<Sha1(text)>> = uidhash

\* writing a file stamps it with the clock
Written(f, lines) ==
    /\ files' = [files EXCEPT ![f] = lines]
    /\ mtime' = [mtime EXCEPT ![f] = now]

\* an exception leaves the method at once, past the release of the lock
Raise(t, exc) ==
    /\ th' = [th EXCEPT ![t].pc = "return", ![t].exc = exc]
    /\ UNCHANGED <<files, mtime>>

\* Remind.append under the lock: the file is opened for appending, then
\* to_reminds(readOne(ical)) is written to it
AppendWrite(t) ==
    /\ th[t].pc = "rmw"
    /\ th[t].op = "append"
    /\ LET f == th[t].filename
       IN  IF IcalError(th[t].ical) # "" THEN Raise(t, IcalError(th[t].ical))
           ELSE /\ Written(f, SplitLines(Concat(files[f]) \o to_reminds(th[t].ical)))
                /\ th' = [th EXCEPT ![t].pc = "release", ![t].wrote = TRUE]
    /\ UNCHANGED <<now, self_icals, self_mtime, self_lock, seen>>
    /\ UNCHANGED convVars

\* Remind.remove under the lock: readlines, the hash of rem[line], and on a
\* match del rem[line] and writelines
RemoveWrite(t) ==
    /\ th[t].pc = "rmw"
    /\ th[t].op = "remove"
    /\ LET f    == th[t].filename
           rem  == files[f]
           line == th[t].line
           at   == Place(line, Len(rem))
       IN  IF ~InRange(line, Len(rem)) THEN Raise(t, "IndexError")
           ELSE IF HashMatches(rem[at], th[t].uidhash)
           THEN /\ Written(f, SplitLines(Concat(SubSeq(rem, 1, at - 1)
                                                 \o SubSeq(rem, at + 1, Len(rem)))))
                /\ th' = [th EXCEPT ![t].pc = "release", ![t].wrote = TRUE]
           ELSE /\ th' = [th EXCEPT ![t].pc = "release"]
                /\ UNCHANGED <<files, mtime>>
    /\ UNCHANGED <<now, self_icals, self_mtime, self_lock, seen>>
    /\ UNCHANGED convVars

\* Remind.replace under the lock: as remove, with
\* rem[line] = to_reminds(readOne(ical)) on a match
ReplaceWrite(t) ==
    /\ th[t].pc = "rmw"
    /\ th[t].op = "replace"
    /\ LET f    == th[t].filename
           rem  == files[f]
           line == th[t].line
           at   == Place(line, Len(rem))
       IN  IF ~InRange(line, Len(rem)) THEN Raise(t, "IndexError")
           ELSE IF HashMatches(rem[at], th[t].uidhash)
           THEN IF IcalError(th[t].ical) # "" THEN Raise(t, IcalError(th[t].ical))
                ELSE /\ Written(f, SplitLines(Concat([rem EXCEPT ![at] = to_reminds(th[t].ical)])))
                     /\ th' = [th EXCEPT ![t].pc = "release", ![t].wrote = TRUE]
           ELSE /\ th' = [th EXCEPT ![t].pc = "release"]
                /\ UNCHANGED <<files, mtime>>
    /\ UNCHANGED <<now, self_icals, self_mtime, self_lock, seen>>
    /\ UNCHANGED convVars

\* the release that ends the locked section; a view then reads the cache
Release(t) ==
    /\ th[t].pc = "release"
    /\ release(t)
    /\ th' = [th EXCEPT ![t].pc = "return",
                        ![t].result = IF IsView(th[t].op)
                                      THEN ViewResult(th[t].op, th[t].filename, self_icals)
                                      ELSE <<>>]
    /\ UNCHANGED <<files, mtime, now, self_icals, self_mtime, seen>>
    /\ UNCHANGED convVars

\* control is back with the caller
Return(t) ==
    /\ th[t].pc = "return"
    /\ th' = [th EXCEPT ![t] = Idle]
    /\ UNCHANGED <<files, mtime, now, self_icals, self_mtime, self_lock, seen>>
    /\ UNCHANGED convVars

\* ---- the world around the object
Tick ==
    /\ now < MaxTime
    /\ now' = now + 1
    /\ UNCHANGED <<files, mtime, self_icals, self_mtime, self_lock, th, seen>>
    /\ UNCHANGED convVars

\* another program saves a file without changing its lines
Touch(f) ==
    /\ mtime[f] < now
    /\ mtime' = [mtime EXCEPT ![f] = now]
    /\ UNCHANGED <<files, now, self_icals, self_mtime, self_lock, th, seen>>
    /\ UNCHANGED convVars

\* ---- inputs of the recurrence translation
FirstDays == {365, 420, 727}       \* 2024-01-01, 2024-02-25, 2024-12-28
Gaps == {1, 2, 7}
Zones == {0, 60}
TimesOfDay == {30, 600}
RECURSIVE SumTo(_, _)
SumTo(g, k) == IF k = 0 THEN 0 ELSE g[k] + SumTo(g, k - 1)
GapLists == UNION {[1..k -> Gaps] : k \in 0..(MaxOccurrences - 1)}
\* the five days 2024-01-01 .. 2024-01-05
FiveDays == [i \in 1..5 |-> 364 + i]
DayLists ==
    {[i \in 1..(Len(g) + 1) |-> f + SumTo(g, i - 1)] : f \in FirstDays, g \in GapLists}
    \cup {FiveDays}

EventOf(ds, msg, location, description, duration) ==
    [dtstart |-> ds, msg |-> msg, location |-> location, description |-> description,
     duration |-> duration, uid |-> _gen_uid(<<"1">>, <<"R","E","M","\n">>)]

RecurEvents(tz) ==
    {EventOf([i \in 1..Len(d) |-> Date(d[i])], <<"x">>, None, None, None) : d \in DayLists}
    \cup {EventOf([i \in 1..Len(d) |-> DateTime(d[i], t, tz)], <<"x">>, None, None, dur) :
             d \in DayLists, t \in TimesOfDay, dur \in {None, Some(90)}}

ConvStart ==
    /\ cpc = "event"
    /\ vevent = <<>>
    /\ remind = <<>>
    /\ parsed = <<>>

\* ---- inputs of the message translation
Pieces == {<<"a">>, <<"[">>, <<"\n">>, <<" ","a","t"," ">>}
RECURSIVE Texts(_)
\* the texts of at most n pieces
Texts(n) == IF n = 0 THEN {<<>>} ELSE {<<>>} \cup {p \o t : p \in Pieces, t \in Texts(n - 1)}
Optional(texts) == {None} \cup {Some(t) : t \in texts \ {<<>>}}

\* ---- inputs of the collection
LineA == <<"R","E","M"," ","M","S","G"," ","a","\n">>
LineB == <<"R","E","M"," ","M","S","G"," ","b","\n">>
\* a VEVENT for one all-day event on 2024-01-01
VE(summary) == _gen_vevent(EventOf(<<Date(365)>>, summary, None, None, None))
LineE == to_remind(VE(<<"e">>), None, None, 0).line
ViewOps == {"get_filesnames", "to_vobject", "to_vobject_combined"}

StartFiles == [f \in Files |-> IF f = "a.rem" THEN <<LineA, LineB>> ELSE <<LineB>>]

\* the files, the clock and the callers when a Remind object is made
CollStart ==
    /\ files = StartFiles
    /\ mtime = [f \in Files |-> 1]
    /\ now = 1
    /\ self_lock = 0
    /\ th = [t \in Threads |-> Idle]

\* Remind.__init__
CollInit ==
    /\ CollStart
    /\ self_icals = <<>>
    /\ self_mtime = 0
    /\ seen = [f \in Files |-> 0]

\* the translators at rest, and the collection at rest
ConvOff ==
    /\ cpc = "off"
    /\ localtz = 0
    /\ event = <<>>
    /\ vevent = <<>>
    /\ remind = <<>>
    /\ parsed = <<>>
CollOff ==
    /\ files = StartFiles
    /\ mtime = [f \in Files |-> 1]
    /\ now = 1
    /\ self_lock = 0
    /\ th = <<>>
    /\ self_icals = <<>>
    /\ self_mtime = 0
    /\ seen = [f \in Files |-> 0]

RecurInit ==
    /\ localtz \in Zones
    /\ event \in RecurEvents(localtz)
    /\ ConvStart
    /\ CollOff

MsgInit ==
    /\ localtz = 0
    /\ event \in {EventOf(<<Date(365)>>, msg, location, description, None) :
                     msg \in Texts(MaxTextPieces) \ {<<>>},
                     location \in Optional(Texts(MaxLocationPieces)),
                     description \in Optional(Texts(MaxTextPieces))}
    /\ ConvStart
    /\ CollOff

\* one event: remind's occurrences -> vevent -> Remind command -> parsed again
SpecRecur == RecurInit /\ [][ConvNext]_vars
SpecMsg == MsgInit /\ [][ConvNext]_vars

\* ---- the whole object: threads calling every method, files touched
SomeNames == {_gen_uid(<<"1">>, LineA), _gen_uid(<<"9">>, LineA)}
SomeIcals == {Ical(TRUE, <<VE(<<"e">>)>>), Ical(FALSE, <<>>)}

Init == CollInit /\ ConvOff

Next ==
    \/ \E t \in Threads :
          \/ CallView(t, ViewOps, {"a.rem"})
          \/ CallAppend(t, SomeIcals, {"a.rem"})
          \/ CallRemove(t, SomeNames, {"a.rem"})
          \/ CallReplace(t, SomeNames, SomeIcals, {"a.rem"})
          \/ Acquire(t)
          \/ Rebuild(t)
          \/ AppendWrite(t)
          \/ RemoveWrite(t)
          \/ ReplaceWrite(t)
          \/ Release(t)
          \/ Return(t)
    \/ Tick
    \/ \E f \in Files : Touch(f)

Spec == Init /\ [][Next]_vars

\* ---- threads calling every method, nothing else touching the files
LockNext ==
    \E t \in Threads :
          \/ CallView(t, {"to_vobject"}, {"a.rem"})
          \/ CallAppend(t, {Ical(TRUE, <<VE(<<"e">>)>>)}, {"a.rem"})
          \/ CallRemove(t, SomeNames, {"a.rem"})
          \/ CallReplace(t, {_gen_uid(<<"1">>, LineA)}, {Ical(FALSE, <<>>)}, {"a.rem"})
          \/ Acquire(t)
          \/ Rebuild(t)
          \/ AppendWrite(t)
          \/ RemoveWrite(t)
          \/ ReplaceWrite(t)
          \/ Release(t)
          \/ Return(t)

SpecLock == Init /\ [][LockNext]_vars

\* ---- one caller changing the files of a loaded object
KnownLines == {LineA, LineB, LineE}
LineNumbers == {<<"1">>, <<"2">>, <<"3">>, <<"1","0">>}
Hashes == {Sha1(l) : l \in KnownLines} \cup {"0bad"}
\* names as _gen_uid makes them, for every line number and hash
IssuedNames == {n \o <<"-", h, "@", "host">> : n \in LineNumbers, h \in Hashes}
\* names it never makes
OtherNames ==
    {<<>>, <<"1">>, <<"1", "-">>, <<"1", "0", "-">>}
    \cup UNION {{<<"-", h, "@", "host">>,
                 <<"x", "-", h, "@", "host">>,
                 <<"0", "-", h, "@", "host">>,
                 <<"-", "1", "-", h, "@", "host">>,
                 <<"1", "-", h, "-", "x", "@", "host">>} : h \in Hashes}
AllIcals == {Ical(TRUE, <<>>), Ical(TRUE, <<VE(<<"e">>)>>),
             Ical(TRUE, <<VE(<<"e">>), VE(<<"e">>)>>), Ical(FALSE, <<>>)}
AllFiles == Files \cup {"x.rem"}

\* the object after its first views: the cache built, the mtimes read
LoadedInit ==
    /\ CollStart
    /\ self_icals = [f \in Files |-> [i \in 1..Len(StartFiles[f]) |->
                                         _gen_uid(Decimal(i), StartFiles[f][i])]]
    /\ self_mtime = 1
    /\ seen = [f \in Files |-> 1]
    /\ ConvOff

MutateNext ==
    \/ CallAppend(1, AllIcals, AllFiles)
    \/ CallRemove(1, IssuedNames \cup OtherNames, AllFiles)
    \/ CallReplace(1, IssuedNames \cup OtherNames, AllIcals, AllFiles)
    \/ Acquire(1)
    \/ AppendWrite(1)
    \/ RemoveWrite(1)
    \/ ReplaceWrite(1)
    \/ Release(1)
    \/ Return(1)

SpecMutate == LoadedInit /\ [][MutateNext]_vars

\* =================================================================
\* Claims about the translators
\* =================================================================
AllDay == \A i \in 1..Len(event.dtstart) : ~IsDateTime(event.dtstart[i])
Gap(i) == event.dtstart[i + 1].ord - event.dtstart[i].ord
Several == Len(event.dtstart) >= 2
Consecutive == Several /\ \A i \in 1..(Len(event.dtstart) - 1) : Gap(i) = 1
SevenApart == Several /\ \A i \in 1..(Len(event.dtstart) - 1) : Gap(i) = 7
Irregular == Several /\ ~Consecutive /\ ~SevenApart
LastDay == event.dtstart[Len(event.dtstart)].ord
Converted == cpc \in {"remind", "parsed"}

\* the text 'Mon D YYYY' of a day, written without padding
PlainDate(n) ==
    LET d == YMD(n)
    IN  MonthAbbr[d.month] \o <<" ">> \o Decimal(d.day) \o <<" ">> \o Decimal(d.year)
Until(n) == <<"U","N","T","I","L"," ">> \o PlainDate(n)
\* clause a directly followed by clause b
Adjacent(a, b) ==
    \E i \in 1..(Len(remind.clauses) - 1) : remind.clauses[i] = a /\ remind.clauses[i + 1] = b

\* C4 (as amended): N >= 2 consecutive all-day occurrences give one event that
\* ends the day after the last occurrence and has no repeating rule and no
\* date list; to_remind then emits '*1' followed by an UNTIL clause dated the
\* LAST occurrence (the end date minus one day).
C4_DailySpan ==
    (AllDay /\ Consecutive) =>
        /\ cpc = "vevent" =>
              /\ vevent.dtend = Some(Date(LastDay + 1))
              /\ vevent.rrule = None
              /\ vevent.rdate = None
        /\ Converted =>
              /\ Adjacent(<<"*","1">>, Until(LastDay))
              /\ remind.trigdates.type = "none"

\* C4 witness: the five days 2024-01-01..05 converted; the clause is
\* '*1' 'UNTIL Jan 5 2024'.
C4_Witness ==
    /\ cpc = "remind"
    /\ event.dtstart = <<Date(365), Date(366), Date(367), Date(368), Date(369)>>
    /\ vevent.dtstart = Date(365)
    /\ Adjacent(<<"*","1">>, <<"U","N","T","I","L"," ","J","a","n"," ","5"," ","2","0","2","4">>)

\* C4 as stated: the UNTIL clause is dated the last occurrence minus one day.
C4_Original ==
    (AllDay /\ Consecutive /\ Converted) => Adjacent(<<"*","1">>, Until(LastDay - 1))

\* C5: N >= 2 occurrences exactly 7 days apart give a WEEKLY rule with count
\* N, and _parse_rruleset returns exactly the clauses '*7' and 'UNTIL <date of
\* the Nth occurrence>' (so no SKIP OMIT clause).
C5_Weekly ==
    SevenApart =>
        /\ cpc = "vevent" =>
              /\ vevent.rrule # None
              /\ vevent.rrule[1].freq = "WEEKLY"
              /\ vevent.rrule[1].count = Some(Len(event.dtstart))
              /\ vevent.rdate = None
        /\ Converted =>
              /\ remind.trigdates.type = "list"
              /\ remind.trigdates.list = << <<"*","7">>, Until(LastDay) >>

\* C5 witness: three weekly occurrences over a year's end, converted.
C5_Witness ==
    /\ cpc = "remind"
    /\ Len(event.dtstart) = 3
    /\ SevenApart
    /\ event.dtstart[1].ord = 727
    /\ remind.trigdates.list[2] = <<"U","N","T","I","L"," ","J","a","n"," ","1","1"," ","2","0","2","5">>

\* the SATISFY clause naming the days of the occurrences as reported
TrigDate(n) ==
    LET d == YMD(n)
    IN  <<"t","r","i","g","d","a","t","e","(",")","=","=","'">>
        \o Digits4(d.year) \o <<"-">> \o Digits2(d.month) \o <<"-">> \o Digits2(d.day) \o <<"'">>
SatisfyOf(ds) ==
    <<"S","A","T","I","S","F","Y"," ","[">>
    \o Join([i \in 1..Len(ds) |-> TrigDate(ds[i].ord)], <<"|","|">>) \o <<"]">>
HasClause(c) == \E i \in 1..Len(remind.clauses) : remind.clauses[i] = c

\* C6: an irregular list gives an explicit date set, and to_remind emits a
\* SATISFY clause with exactly the dates of the occurrences, in order, and no
\* start date.
C6_Explicit ==
    Irregular =>
        /\ cpc = "vevent" => (vevent.rrule = None /\ vevent.rdate # None)
        /\ Converted =>
              /\ HasClause(SatisfyOf(event.dtstart))
              /\ ~HasClause(PlainDate(event.dtstart[1].ord))

\* C7: what _parse_remind_line reads back from the line to_remind wrote (no
\* label given) is the summary, the location and the description that went in.
C7_RoundTrip ==
    (cpc = "parsed" /\ remind.label = None) =>
        /\ parsed.msg = vevent.summary
        /\ parsed.location = vevent.location
        /\ parsed.description = vevent.description
\* =================================================================
\* Claims about the collection
\* =================================================================
Mutates(t) == th[t].op \in {"remove", "replace"}
\* the step of thread t that reads the file under the lock and leaves
ReadModifyWrite(t) == th[t].pc = "rmw" /\ th'[t].pc # "rmw"
\* the 1-based number of the line the name of thread t addresses
Addressed(t) == th[t].line + 1
\* the name of t addresses a line and carries the hash of that line
Matching(t) ==
    /\ Addressed(t) \in 1..Len(files[th[t].filename])
    /\ th[t].uidhash = <<Sha1(files[th[t].filename][Addressed(t)])>>

\* C1: remove and replace with a name whose hash part differs from the hash
\* of the line it addresses (or that addresses a line past the end) leave
\* every file exactly as it was.
C1_StaleUnchanged ==
    [][\A t \in Threads :
          (ReadModifyWrite(t) /\ Mutates(t) /\ Addressed(t) >= 1 /\ ~Matching(t))
              => files' = files]_vars

\* C1 witness: replace has read line 2 of a cached file under the lock, found
\* another hash than the name's (the hash of a line the file also holds), and
\* written nothing.
C1_Witness ==
    \E t \in Threads :
        /\ th[t].pc = "release"
        /\ th[t].op = "replace"
        /\ th[t].filename \in DOMAIN self_icals
        /\ Addressed(t) = 2
        /\ Len(files[th[t].filename]) >= 2
        /\ th[t].uidhash = <<Sha1(files[th[t].filename][1])>>
        /\ ~Matching(t)
        /\ ~th[t].wrote
        /\ IcalError(th[t].ical) = ""

InSection(t) == th[t].pc \in {"rebuild", "rmw", "release"}

\* C2: at most one thread at a time is inside a cache rebuild or inside the
\* read-modify-write of a file.
C2_MutualExclusion == \A t, u \in Threads : (InSection(t) /\ InSection(u)) => t = u

\* C2 witness: one thread rebuilds the cache while another, in append, remove
\* or replace, waits for the lock.
C2_Witness ==
    \E t, u \in Threads :
        /\ t # u
        /\ th[t].pc = "rebuild"
        /\ self_lock = t
        /\ th[u].pc = "acquire"
        /\ ~IsView(th[u].op)

\* a name that does not parse: not two non-empty parts before the host, or a
\* line number that is no positive integer
Malformed(name) ==
    LET uid == SplitUid(name)
    IN  \/ Len(uid) # 2
        \/ (Len(uid) = 2 /\ (uid[1] = <<>> \/ uid[2] = <<>>))
        \/ (Len(uid) = 2 /\ ~IsInt(uid[1]))
        \/ (Len(uid) = 2 /\ IsInt(uid[1]) /\ IntOf(uid[1]) < 1)

\* C3: remove and replace on a known file with a name that does not parse
\* return without an exception and without writing the file.
C3_MalformedNoop ==
    \A t \in Threads :
        (th[t].pc = "return" /\ Mutates(t) /\ th[t].filename \in DOMAIN self_icals
         /\ Malformed(th[t].name))
            => (th[t].exc = "" /\ ~th[t].wrote)

\* C8: a view called (with no other call in progress) while the cache is
\* empty, or while a cached file's mtime is past the one last read for that
\* file, has rebuilt the cache when it returns.
C8_RebuildWhenDue ==
    \A t \in Threads :
        (th[t].pc = "return" /\ IsView(th[t].op) /\ th[t].alone /\ th[t].stale)
            => th[t].rebuilt

\* C9: replace with a matching name keeps the number of lines of the file, and
\* the bytes of every other line at its line number, whatever calendar text is
\* passed.
C9_ReplaceKeepsLines ==
    [][\A t \in Threads :
          (ReadModifyWrite(t) /\ th[t].op = "replace" /\ Matching(t))
              => LET f == th[t].filename
                 IN  /\ Len(files'[f]) = Len(files[f])
                     /\ \A i \in 1..Len(files[f]) :
                            i # Addressed(t) => files'[f][i] = files[f][i]]_vars

\* C10: the lock is free whenever no call is in progress.
C10_LockFreeAtRest == (\A t \in Threads : th[t].pc = "idle") => self_lock = 0
====
